---- MODULE Spec2Model ----
(***************************************************************************)
(* A state-machine model of scan.py: main, the batch driver                *)
(* scan_from_file, the four registry clients, the download / extract /     *)
(* scan / cleanup pipeline and DiscordLogger.send_alert.                   *)
(*                                                                         *)
(* The program is sequential, so the call stack is flattened into one      *)
(* program counter pc.  Every blocking step (HTTP request, file write,     *)
(* extraction, subprocess, sleep) is one action whose outcome is chosen by *)
(* the environment: it returns, it raises an Exception, or the operator's  *)
(* KeyboardInterrupt is raised inside it.                                  *)
(***************************************************************************)
EXTENDS Integers, Sequences, FiniteSets, TLC

\* Bounds of the model.
MaxPkgs == 2
\* Versions are 1..MaxVer; 0 stands for None (no --version given).
MaxVer == 2
\* Lines of scanner output.
MaxOut == 2

VARIABLES
    args,                 \* argparse namespace: file, package_name, ecosystem, version, all_versions, discord_webhook
    trufflehog_installed, \* environment: the scanner binary is on PATH
    file_exists,          \* environment: the batch file of --file exists
    tmp_dirs,             \* environment: temporary directories that exist on disk
    pc,                   \* position in the program
    package_names,        \* scan_from_file: the stripped non-blank lines
    i,                    \* scan_from_file: enumerate index (1-based)
    reg,                  \* environment: what the registry holds for the current package
    versions,             \* client: the resolved list of versions
    vi,                   \* client: index of ver in versions
    ai,                   \* _scan_maven_artifacts: index in artifact_types
    scanned_any,          \* _scan_maven_artifacts local
    work_dir,             \* _download_and_scan local (None is <<>>)
    pending,              \* exception in flight while the finally block runs
    filename,             \* _download_and_scan local: extension of the saved file
    stdout,               \* result.stdout of the scanner: a sequence of lines
    archive,              \* environment: what the bytes of the file handed to the extraction are
    verified_count,       \* send_alert local
    posts,                \* history: POST requests made by the send_alert call in progress
    exit_code,            \* process exit status, -1 while running
    started,              \* history: package names handed to a client, in order
    errors,               \* history: [ERROR] lines of main, check_trufflehog and scan_from_file
    pkg_logged,           \* history: the current client call or the pipeline under it printed an [ERROR] line
    sleeps,               \* history: number of time.sleep calls
    client_exc,           \* history: exception that escaped the current scan_*_package call
    top_exc,              \* history: exception that reached main
    exit_path,            \* history: how the pipeline call in progress left its try block
    skip_reason,          \* history: why the registry cannot serve the current package
    pkg_scanned,          \* history: the scanner was invoked for the current package
    did                   \* history: which kinds of external activity happened in the run

vars == <<args, trufflehog_installed, file_exists, tmp_dirs, pc, package_names, i, reg,
          versions, vi, ai, scanned_any, work_dir, pending, filename, stdout, archive,
          verified_count, posts, exit_code, started, errors, pkg_logged, sleeps, client_exc,
          top_exc, exit_path, skip_reason, pkg_scanned, did>>

env == <<args, trufflehog_installed, file_exists>>
loop == <<package_names, i, reg, versions, vi, ai, scanned_any>>
call == <<work_dir, pending, filename, stdout, archive, verified_count, posts>>
top == <<exit_code, top_exc, errors>>
hist == <<started, sleeps, exit_path, skip_reason, pkg_scanned, did>>

None == <<>>

Ecosystems == {"pypi", "npm", "crates", "maven"}

\* A line of the batch file: whitespace only, a plain name, a group_id:artifact_id name.
Lines == {" ", "a", "g:a"}

\* str.strip() on a line
strip(line) ==
    IF line = " " THEN "" ELSE line

\* ':' in package_name
HasColon(name) ==
    name = "g:a"

Versions == 1..MaxVer

SeqsUpTo(S, n) ==
    UNION {[1..k -> S] : k \in 0..n}

Range(s) ==
    {s[k] : k \in DOMAIN s}

\* What a registry can hold for a package: its versions in the order of the
\* metadata document, and the version the registry declares to be the latest.
\* Versions are opaque to the program (it neither compares nor sorts them),
\* so the k-th version listed is called k; --version ranges over all of
\* Versions, listed or not.
Registries ==
    {r \in [versions : {[k \in 1..n |-> k] : n \in 1..MaxVer}, latest : Versions] :
        r.latest \in Range(r.versions)}

NoRegistry == [versions |-> <<>>, latest |-> 0]

\* [line.strip() for line in f if line.strip()]
RECURSIVE StripLines(_)
StripLines(lines) ==
    IF lines = <<>> THEN <<>>
    ELSE IF strip(Head(lines)) # "" THEN <<strip(Head(lines))>> \o StripLines(Tail(lines))
    ELSE StripLines(Tail(lines))

NoActivity == [request |-> FALSE, download |-> FALSE, mkdtemp |-> FALSE,
               scan |-> FALSE, raised |-> FALSE, swallowed |-> FALSE]

\* What the batch file can hold
InputFiles ==
    SeqsUpTo(Lines, MaxPkgs)

\* argparse: the ecosystem flags, package_name | --file, --version | --all-versions
Args ==
    {a \in [file : BOOLEAN, package_name : {"a", "g:a", ""}, ecosystem : Ecosystems,
            version : 0..MaxVer, all_versions : BOOLEAN, discord_webhook : BOOLEAN] :
        /\ a.file <=> a.package_name = ""
        /\ a.all_versions => a.version = 0}

Init ==
    /\ args \in Args
    /\ trufflehog_installed \in BOOLEAN
    /\ file_exists \in IF args.file THEN BOOLEAN ELSE {FALSE}
    /\ tmp_dirs = {}
    /\ pc = "check_trufflehog"
    /\ package_names = <<>>
    /\ i = 0
    /\ reg = NoRegistry
    /\ versions = <<>>
    /\ vi = 0
    /\ ai = 0
    /\ scanned_any = FALSE
    /\ work_dir = None
    /\ pending = "none"
    /\ filename = "none"
    /\ stdout = <<>>
    /\ archive = "none"
    /\ verified_count = 0
    /\ posts = 0
    /\ exit_code = -1
    /\ started = <<>>
    /\ errors = 0
    /\ pkg_logged = FALSE
    /\ sleeps = 0
    /\ client_exc = "none"
    /\ top_exc = "none"
    /\ exit_path = "none"
    /\ skip_reason = "none"
    /\ pkg_scanned = FALSE
    /\ did = NoActivity

\* Handlers of main that log and fall through to the end of main
MainExceptExitsZero(kind) ==
    /\ pc' = "exited"
    /\ exit_code' = 0
    /\ top_exc' = kind
    /\ errors' = IF kind = "Exception" THEN errors + 1 ELSE errors

\* An exception leaves main: sys.exit(1) in the handlers of main (L779-784).
MainExcept(kind) ==
    /\ pc' = "exited"
    /\ exit_code' = 1
    /\ top_exc' = kind
    /\ errors' = IF kind = "Exception" THEN errors + 1 ELSE errors

\* An exception leaves a scan_*_package call
ClientRaises(kind) ==
    /\ client_exc' = kind
    /\ pc' = "except"
    /\ UNCHANGED pkg_logged

\* The handlers above a client call: `except Exception` of scan_from_file
\* (L141-142), then those of main
Except ==
    /\ pc = "except"
    /\ IF args.file /\ client_exc = "Exception"
       THEN /\ pc' = "main_end"
            /\ errors' = errors + 1
            /\ UNCHANGED <<exit_code, top_exc>>
       ELSE MainExcept(client_exc)
    /\ UNCHANGED <<env, tmp_dirs, loop, call, hist, pkg_logged, client_exc>>

\* A main that does not look at what check_trufflehog returns
CheckTrufflehogIgnored ==
    /\ pc = "check_trufflehog"
    /\ pc' = "dispatch"
    /\ UNCHANGED <<env, tmp_dirs, loop, call, top, hist, pkg_logged, client_exc>>

\* PackageScanner.check_trufflehog and its use in main (L626-635, L733-737)
CheckTrufflehog ==
    /\ pc = "check_trufflehog"
    /\ \/ /\ trufflehog_installed
          /\ pc' = "dispatch"
          /\ UNCHANGED <<exit_code, top_exc, errors>>
       \/ /\ ~trufflehog_installed
          /\ pc' = "exited"
          /\ exit_code' = 1
          /\ errors' = errors + 1
          /\ UNCHANGED top_exc
       \/ \* subprocess.run raises something else (PermissionError), or the operator
          \* interrupts: neither is caught, the interpreter ends with a non-zero status
          /\ trufflehog_installed
          /\ \E kind \in {"Exception", "KeyboardInterrupt"} :
                /\ pc' = "exited"
                /\ exit_code' = IF kind = "KeyboardInterrupt" THEN 130 ELSE 1
                /\ top_exc' = kind
                /\ UNCHANGED errors
    /\ UNCHANGED <<env, tmp_dirs, loop, call, hist, pkg_logged, client_exc>>

\* main L762-778: batch mode or one package
Dispatch ==
    /\ pc = "dispatch"
    /\ IF args.file
       THEN /\ pc' = "open_file"
            /\ UNCHANGED <<package_names, i>>
       ELSE /\ pc' = "pkg_begin"
            /\ package_names' = <<args.package_name>>
            /\ i' = 1
    /\ UNCHANGED <<env, tmp_dirs, reg, versions, vi, ai, scanned_any, call, top,
                   hist, pkg_logged, client_exc>>

\* A scan_from_file without the handler of L139-140: FileNotFoundError is
\* taken by `except Exception` of main
OpenFileUncaught ==
    /\ pc = "open_file"
    /\ \/ /\ ~file_exists
          /\ MainExcept("Exception")
          /\ UNCHANGED <<package_names, i>>
       \/ /\ file_exists
          /\ \E lines \in InputFiles : package_names' = StripLines(lines)
          /\ i' = 1
          /\ pc' = IF package_names' = <<>> THEN "main_end" ELSE "pkg_begin"
          /\ UNCHANGED top
    /\ UNCHANGED <<env, tmp_dirs, reg, versions, vi, ai, scanned_any, call,
                   client_exc, hist, pkg_logged>>

\* scan_from_file L116-120, L139-142
OpenFile ==
    /\ pc = "open_file"
    /\ \/ \* FileNotFoundError (L139)
          /\ ~file_exists
          /\ errors' = errors + 1
          /\ pc' = "main_end"
          /\ UNCHANGED <<package_names, i>>
       \/ \* any other failure of open or of the read (L141)
          /\ file_exists
          /\ errors' = errors + 1
          /\ pc' = "main_end"
          /\ UNCHANGED <<package_names, i>>
       \/ \* the lines are read
          /\ file_exists
          /\ \E lines \in InputFiles : package_names' = StripLines(lines)
          /\ i' = 1
          /\ pc' = IF package_names' = <<>> THEN "main_end" ELSE "pkg_begin"
          /\ UNCHANGED errors
    /\ UNCHANGED <<env, tmp_dirs, reg, versions, vi, ai, scanned_any, call, exit_code,
                   top_exc, client_exc, hist, pkg_logged>>

\* main L786: the run ends normally
MainEnd ==
    /\ pc = "main_end"
    /\ pc' = "exited"
    /\ exit_code' = 0
    /\ UNCHANGED <<env, tmp_dirs, loop, call, hist, errors, pkg_logged, client_exc, top_exc>>

Mark(what) ==
    [did EXCEPT ![what] = TRUE]

\* The step `what` raised an Exception instead of returning
MarkRaised(what) ==
    [did EXCEPT ![what] = TRUE, !.raised = TRUE]

Raised ==
    [did EXCEPT !.raised = TRUE]

\* A scan_*_package call begins: scan_from_file L122-132 or main L767-778, and
\* the part of scan_maven_package that needs no request (L147-165).
PkgBegin ==
    /\ pc = "pkg_begin"
    /\ started' = Append(started, package_names[i])
    /\ reg' \in Registries
    /\ ai' = 0
    /\ scanned_any' = FALSE
    /\ pkg_scanned' = FALSE
    /\ client_exc' = "none"
    /\ IF args.ecosystem # "maven"
       THEN /\ pc' = "meta"
            /\ versions' = <<>>
            /\ skip_reason' = "none"
            /\ pkg_logged' = FALSE
       ELSE IF ~HasColon(package_names[i])
       THEN /\ pc' = "pkg_end"
            /\ versions' = <<>>
            /\ skip_reason' = "none"
            /\ pkg_logged' = TRUE
       ELSE IF args.all_versions
       THEN /\ pc' = "maven_versions"
            /\ versions' = <<>>
            /\ skip_reason' = "none"
            /\ pkg_logged' = FALSE
       ELSE IF args.version # 0
       THEN /\ pc' = "ver_loop"
            /\ versions' = <<args.version>>
            /\ skip_reason' = IF args.version \in Range(reg'.versions)
                              THEN "none" ELSE "no_version"
            /\ pkg_logged' = FALSE
       ELSE /\ pc' = "maven_latest"
            /\ versions' = <<>>
            /\ skip_reason' = "none"
            /\ pkg_logged' = FALSE
    /\ vi' = IF pc' = "ver_loop" THEN 1 ELSE 0
    /\ UNCHANGED <<env, top, tmp_dirs, package_names, i, call, sleeps, exit_path, did>>

\* A client that takes the largest key of the version mapping for the latest
ResolveLargest(ecosystem, r) ==
    IF args.all_versions THEN r.versions
    ELSE IF args.version # 0
    THEN IF ecosystem = "crates" \/ args.version \in Range(r.versions)
         THEN <<args.version>> ELSE <<>>
    ELSE <<r.versions[Len(r.versions)]>>

\* The versions a client resolves from a well-formed metadata document:
\* L450-459 (PyPI), L506-515 (npm), L415-418 (crates.io without --all-versions).
\* <<>> is the "Version not found" return of PyPI and npm.
Resolve(ecosystem, r) ==
    IF args.all_versions THEN r.versions
    ELSE IF args.version # 0
    THEN IF ecosystem = "crates" \/ args.version \in Range(r.versions)
         THEN <<args.version>> ELSE <<>>
    ELSE <<r.latest>>

\* The metadata request of scan_pypi_package (L441-459), scan_npm_package
\* (L497-515) and scan_crates_package (L395-403, L415-418).
Meta ==
    /\ pc = "meta"
    /\ \/ \* the operator interrupts the request
          /\ ClientRaises("KeyboardInterrupt")
          /\ did' = Mark("request")
          /\ UNCHANGED <<versions, vi, skip_reason>>
       \/ \* session.get raises (no connection)
          /\ ClientRaises("Exception")
          /\ did' = MarkRaised("request")
          /\ UNCHANGED <<versions, vi, skip_reason>>
       \/ \* status 200, but response.json() raises or the document lacks a key
          \* the client reads (KeyError)
          /\ ClientRaises("Exception")
          /\ did' = Mark("request")
          /\ UNCHANGED <<versions, vi, skip_reason>>
       \/ \* status_code != 200
          /\ did' = Mark("request")
          /\ pkg_logged' = TRUE
          /\ skip_reason' = "non200"
          /\ pc' = "pkg_end"
          /\ UNCHANGED <<versions, vi, client_exc>>
       \/ \* 200 and a well-formed document
          /\ did' = Mark("request")
          /\ IF args.ecosystem = "crates" /\ args.all_versions
             THEN /\ pc' = "crates_versions"
                  /\ UNCHANGED <<versions, vi, skip_reason, pkg_logged>>
             ELSE IF Resolve(args.ecosystem, reg) = <<>>
             THEN /\ pc' = "pkg_end"
                  /\ pkg_logged' = TRUE
                  /\ skip_reason' = "no_version"
                  /\ UNCHANGED <<versions, vi>>
             ELSE /\ pc' = "ver_loop"
                  /\ versions' = Resolve(args.ecosystem, reg)
                  /\ vi' = 1
                  /\ skip_reason' = IF args.version # 0 /\ args.version \notin Range(reg.versions)
                                    THEN "no_version" ELSE "none"
                  /\ UNCHANGED pkg_logged
          /\ UNCHANGED client_exc
    /\ UNCHANGED <<env, top, tmp_dirs, package_names, i, reg, ai, scanned_any, call, started,
                   sleeps, exit_path, pkg_scanned>>

\* scan_crates_package with --all-versions: the versions request (L405-414)
CratesVersions ==
    /\ pc = "crates_versions"
    /\ \/ /\ ClientRaises("KeyboardInterrupt")
          /\ UNCHANGED <<versions, vi, did>>
       \/ \* session.get raises
          /\ ClientRaises("Exception")
          /\ did' = MarkRaised("request")
          /\ UNCHANGED <<versions, vi>>
       \/ \* status 200, but the document is not the expected one
          /\ ClientRaises("Exception")
          /\ UNCHANGED <<versions, vi, did>>
       \/ \* status 200: every version; another status: the newest one
          /\ \E ok \in BOOLEAN :
                versions' = IF ok THEN reg.versions ELSE <<reg.latest>>
          /\ vi' = 1
          /\ pc' = "ver_loop"
          /\ UNCHANGED <<client_exc, pkg_logged, did>>
    /\ UNCHANGED <<env, top, tmp_dirs, package_names, i, reg, ai, scanned_any, call, started,
                   sleeps, exit_path, skip_reason, pkg_scanned>>

\* scan_maven_package with --all-versions: _get_all_maven_versions (L187-214)
\* and the check of its result (L159-163)
MavenVersions ==
    /\ pc = "maven_versions"
    /\ \/ /\ ClientRaises("KeyboardInterrupt")
          /\ did' = Mark("request")
          /\ UNCHANGED <<versions, vi, skip_reason>>
       \/ \* raise_for_status on a non-success response, a request that raises, or
          \* a malformed document: the handler at L212 logs and returns [], L161
          \* logs and returns
          /\ \E failure \in {"non200", "raise", "shape"} :
                /\ skip_reason' = IF failure = "non200" THEN "non200" ELSE "none"
                /\ did' = IF failure = "raise" THEN MarkRaised("request") ELSE Mark("request")
          /\ pkg_logged' = TRUE
          /\ pc' = "pkg_end"
          /\ UNCHANGED <<versions, vi, client_exc>>
       \/ \* no document carries a version
          /\ did' = Mark("request")
          /\ pkg_logged' = TRUE
          /\ pc' = "pkg_end"
          /\ UNCHANGED <<versions, vi, client_exc, skip_reason>>
       \/ /\ did' = Mark("request")
          /\ versions' = reg.versions
          /\ vi' = 1
          /\ pc' = "ver_loop"
          /\ UNCHANGED <<client_exc, pkg_logged, skip_reason>>
    /\ UNCHANGED <<env, top, tmp_dirs, package_names, i, reg, ai, scanned_any, call, started,
                   sleeps, exit_path, pkg_scanned>>

\* scan_maven_package without a version: _get_latest_maven_version (L216-239)
\* and the check of its result (L168-172)
MavenLatest ==
    /\ pc = "maven_latest"
    /\ \/ /\ ClientRaises("KeyboardInterrupt")
          /\ did' = Mark("request")
          /\ UNCHANGED <<versions, vi, skip_reason>>
       \/ \* raise_for_status on a non-success response, a request that raises, or
          \* a malformed document: the handler at L237 logs and returns None,
          \* L170 logs and returns
          /\ \E failure \in {"non200", "raise", "shape"} :
                /\ skip_reason' = IF failure = "non200" THEN "non200" ELSE "none"
                /\ did' = IF failure = "raise" THEN MarkRaised("request") ELSE Mark("request")
          /\ pkg_logged' = TRUE
          /\ pc' = "pkg_end"
          /\ UNCHANGED <<versions, vi, client_exc>>
       \/ \* docs is empty, or latestVersion is absent
          /\ did' = Mark("request")
          /\ pkg_logged' = TRUE
          /\ pc' = "pkg_end"
          /\ UNCHANGED <<versions, vi, client_exc, skip_reason>>
       \/ /\ did' = Mark("request")
          /\ versions' = <<reg.latest>>
          /\ vi' = 1
          /\ pc' = "ver_loop"
          /\ UNCHANGED <<client_exc, pkg_logged, skip_reason>>
    /\ UNCHANGED <<env, top, tmp_dirs, package_names, i, reg, ai, scanned_any, call, started,
                   sleeps, exit_path, pkg_scanned>>

\* artifact_types of _scan_maven_artifacts (L249-253)
artifact_types == <<"sources.jar", "jar", "pom">>

\* A registry that serves an artifact for every version asked for
PublishedAlways(ver) ==
    ver \in Versions

\* The registry serves the version ver of the current package
Published(ver) ==
    ver \in Range(reg.versions)

\* The loop over versions of a client: `for ver in versions` and what precedes
\* the pipeline call (L420-433 crates.io, L461-483 PyPI, L517-529 npm, L174-185 Maven)
VerLoop ==
    /\ pc = "ver_loop"
    /\ \/ \* the loop is over: the client returns
          /\ vi > Len(versions)
          /\ pc' = "pkg_end"
          /\ UNCHANGED <<vi, ai, scanned_any, client_exc, pkg_logged>>
       \/ \* crates.io, npm with a tarball, PyPI with an sdist: call _download_and_scan
          /\ vi <= Len(versions)
          /\ args.ecosystem \in {"crates", "npm", "pypi"}
          /\ pc' = "mkdtemp"
          /\ UNCHANGED <<vi, ai, scanned_any, client_exc, pkg_logged>>
       \/ \* PyPI: the release has no sdist (L472-474)
          /\ vi <= Len(versions)
          /\ args.ecosystem = "pypi"
          /\ vi' = vi + 1
          /\ UNCHANGED <<pc, ai, scanned_any, client_exc, pkg_logged>>
       \/ \* PyPI, npm: the version's entry lacks a key the client reads (KeyError)
          /\ vi <= Len(versions)
          /\ args.ecosystem \in {"npm", "pypi"}
          /\ ClientRaises("Exception")
          /\ UNCHANGED <<vi, ai, scanned_any>>
       \/ \* Maven: call _scan_maven_artifacts
          /\ vi <= Len(versions)
          /\ args.ecosystem = "maven"
          /\ pc' = "head"
          /\ ai' = 1
          /\ scanned_any' = FALSE
          /\ UNCHANGED <<vi, client_exc, pkg_logged>>
    /\ UNCHANGED <<env, top, tmp_dirs, package_names, i, reg, versions, call, hist>>

\* _scan_maven_artifacts: one turn of the loop over artifact_types up to the
\* pipeline call (L257-280), and the end of the loop (L293-294)
HeadRequest ==
    /\ pc = "head"
    /\ \/ /\ ai > Len(artifact_types)
          /\ pkg_logged' = (pkg_logged \/ ~scanned_any)
          /\ vi' = vi + 1
          /\ pc' = "ver_loop"
          /\ UNCHANGED <<ai, client_exc, did>>
       \/ \* HEAD answers 200
          /\ ai <= Len(artifact_types)
          /\ Published(versions[vi])
          /\ pc' = "mkdtemp"
          /\ did' = Mark("request")
          /\ UNCHANGED <<vi, ai, client_exc, pkg_logged>>
       \/ \* HEAD answers another status (L272-274) or raises (L275-277)
          /\ ai <= Len(artifact_types)
          /\ \E raises \in BOOLEAN :
                did' = IF raises THEN MarkRaised("request") ELSE Mark("request")
          /\ ai' = ai + 1
          /\ UNCHANGED <<pc, vi, client_exc, pkg_logged>>
       \/ /\ ai <= Len(artifact_types)
          /\ ClientRaises("KeyboardInterrupt")
          /\ did' = Mark("request")
          /\ UNCHANGED <<vi, ai>>
    /\ UNCHANGED <<env, top, tmp_dirs, package_names, i, reg, versions, scanned_any, call,
                   started, sleeps, exit_path, skip_reason, pkg_scanned>>

\* An Exception raised in the try block of the pipeline is taken by its
\* handler (L618-619, L381-382), which logs it; the finally block follows.
Caught(path) ==
    /\ pc' = "cleanup"
    /\ pkg_logged' = TRUE
    /\ pending' = "none"
    /\ exit_path' = path

\* A KeyboardInterrupt raised in the try block is no Exception: the finally
\* block runs with it in flight.
Interrupted ==
    /\ pc' = "cleanup"
    /\ pending' = "KeyboardInterrupt"
    /\ exit_path' = "interrupt"
    /\ UNCHANGED pkg_logged

\* The try block goes on
GoOn(next) ==
    /\ pc' = next
    /\ UNCHANGED <<pkg_logged, pending, exit_path>>

\* The try block is left by return or by running to its end
Leave(path) ==
    /\ pc' = "cleanup"
    /\ exit_path' = path
    /\ UNCHANGED <<pkg_logged, pending>>

\* tempfile.mkdtemp (L300-304, L534-538)
Mkdtemp ==
    /\ pc = "mkdtemp"
    /\ \/ /\ work_dir' = <<i, vi, ai>>
          /\ tmp_dirs' = tmp_dirs \cup {<<i, vi, ai>>}
          /\ did' = Mark("mkdtemp")
          /\ pc' = "download"
          /\ UNCHANGED <<pkg_logged, pending, exit_path>>
       \/ \* mkdtemp raises (OSError)
          /\ work_dir' = None
          /\ did' = MarkRaised("mkdtemp")
          /\ Caught("mkdtemp_error")
          /\ UNCHANGED tmp_dirs
    /\ UNCHANGED <<env, top, loop, filename, stdout, archive, verified_count, posts, client_exc,
                   started, sleeps, skip_reason, pkg_scanned>>

\* Last path segment of the download URL, by its extension: "none" is a
\* segment that is empty or has no dot, "other" an extension outside the
\* handled ones (.whl, .tar.bz2)
UrlNames == {"tar.gz", "tgz", "tar", "zip", "other", "none"}

\* What the downloaded bytes really are
Formats == {"targz", "tar", "zip", "garbage"}

\* The name the artifact is saved under (L546-558)
SavedName(is_crate, url_name, zip_content_type) ==
    IF is_crate THEN "crate"
    ELSE IF url_name = "none"
    THEN IF zip_content_type THEN "zip" ELSE "tar.gz"
    ELSE url_name

\* session.get(url, stream=True), raise_for_status, the choice of the file
\* name and the writing of the body to disk (L309-332, L543-565); a POM is
\* written into the extracted directory and needs no extraction
Download ==
    /\ pc = "download"
    /\ \/ /\ args.ecosystem # "maven"
          /\ Published(versions[vi])
          /\ \E url_name \in UrlNames, zip_content_type \in BOOLEAN :
                filename' = SavedName(args.ecosystem = "crates", url_name, zip_content_type)
          /\ GoOn("extract")
          /\ did' = Mark("download")
       \/ /\ args.ecosystem = "maven"
          /\ Published(versions[vi])
          /\ artifact_types[ai] = "pom"
          /\ UNCHANGED filename
          /\ GoOn("scan")
          /\ did' = Mark("download")
       \/ /\ args.ecosystem = "maven"
          /\ Published(versions[vi])
          /\ artifact_types[ai] # "pom"
          /\ filename' = "jar"
          /\ GoOn("extract")
          /\ did' = Mark("download")
       \/ \* a non-success response: raise_for_status raises HTTPError
          /\ Caught("http_error")
          /\ did' = Mark("download")
          /\ UNCHANGED filename
       \/ \* the request raises, the stream breaks or the disk is full
          /\ Caught("download_error")
          /\ did' = MarkRaised("download")
          /\ UNCHANGED filename
       \/ /\ Interrupted
          /\ did' = Mark("download")
          /\ UNCHANGED filename
    /\ UNCHANGED <<env, top, tmp_dirs, loop, work_dir, stdout, archive, verified_count, posts, client_exc,
                   started, sleeps, skip_reason, pkg_scanned>>

\* The format the extraction code opens a file name as (L573-582), "none"
\* for a name it does not handle.  tarfile.open is called with 'r:gz' for
\* every name of the tar family.
OpenedAs(name) ==
    IF name \in {"crate", "tar.gz", "tgz", "tar"} THEN "targz"
    ELSE IF name = "zip" THEN "zip"
    ELSE "none"

\* An extraction without the else branch of L579-581: a name it does not know
\* is opened as a gzipped tar
ExtractionTriesTar(name, format) ==
    IF OpenedAs(name) = "zip"
    THEN IF format = "zip" THEN "extracted" ELSE "error"
    ELSE IF format = "targz" THEN "extracted" ELSE "error"

\* What extraction does with a file saved as `name` whose bytes are `format`
\* (L573-582): "extracted", "unsupported" (a warning and return) or "error"
\* (tarfile.ReadError, zipfile.BadZipFile)
Extraction(name, format) ==
    IF OpenedAs(name) = "none" THEN "unsupported"
    ELSE IF OpenedAs(name) = format THEN "extracted"
    ELSE "error"

\* What extraction does with a JAR whose bytes are `format` (L340-345):
\* "extracted", or "invalid" for zipfile.BadZipFile (a warning and return)
JarExtraction(format) ==
    IF format = "zip" THEN "extracted" ELSE "invalid"

\* Extraction (L567-582; for a JAR L334-345).  What the downloaded bytes are
\* shows here.  The file name is not read afterwards and is dropped from the
\* state.
Extract ==
    /\ pc = "extract"
    /\ \/ /\ args.ecosystem # "maven"
          /\ \E format \in Formats : Extraction(filename, format) = "extracted"
          /\ GoOn("scan")
          /\ UNCHANGED did
       \/ /\ args.ecosystem # "maven"
          /\ \E format \in Formats : Extraction(filename, format) = "unsupported"
          /\ Leave("unsupported")
          /\ UNCHANGED did
       \/ \* tarfile.ReadError, zipfile.BadZipFile, or a failure while writing
          /\ args.ecosystem # "maven"
          /\ OpenedAs(filename) # "none"
          /\ did' = Raised
          /\ Caught("extract_error")
       \/ /\ args.ecosystem = "maven"
          /\ \E format \in Formats : JarExtraction(format) = "extracted"
          /\ GoOn("scan")
          /\ UNCHANGED did
       \/ \* zipfile.BadZipFile: a warning and return (L343-345)
          /\ args.ecosystem = "maven"
          /\ \E format \in Formats : JarExtraction(format) = "invalid"
          /\ Leave("invalid_jar")
          /\ UNCHANGED did
       \/ \* another failure while extracting the JAR
          /\ args.ecosystem = "maven"
          /\ did' = Raised
          /\ Caught("extract_error")
       \/ /\ Interrupted
          /\ UNCHANGED did
    /\ filename' = "none"
    /\ UNCHANGED <<env, top, tmp_dirs, loop, work_dir, stdout, archive, verified_count, posts,
                   client_exc, started, sleeps, skip_reason, pkg_scanned>>

\* The extraction of L567-582 and L334-345 applied to the file in filename
\* whose bytes are those in archive
ExtractArchive ==
    /\ pc = "extract"
    /\ LET result == IF args.ecosystem = "maven" THEN JarExtraction(archive)
                     ELSE Extraction(filename, archive)
       IN  \/ /\ result = "extracted"
              /\ GoOn("scan")
              /\ UNCHANGED did
           \/ /\ result = "unsupported"
              /\ Leave("unsupported")
              /\ UNCHANGED did
           \/ /\ result = "invalid"
              /\ Leave("invalid_jar")
              /\ UNCHANGED did
           \/ /\ result = "error"
              /\ did' = Raised
              /\ Caught("extract_error")
    /\ filename' = "none"
    /\ UNCHANGED <<env, top, tmp_dirs, loop, work_dir, stdout, archive, verified_count, posts,
                   client_exc, started, sleeps, skip_reason, pkg_scanned>>

\* A line of the scanner's output: a JSON object whose Verified is true, one
\* whose Verified is false, one without the field, JSON that is no object,
\* text that is no JSON, an empty line.
LineKinds == {"verified", "unverified", "no_field", "not_object", "malformed", "blank"}

Stdouts == SeqsUpTo(LineKinds, MaxOut)

\* A count of every line that holds a JSON object
CountsAnyObject(line) ==
    line \in {"verified", "unverified", "no_field"}

\* json.loads(line) returns (it raises on text that is no JSON)
Loads(line) ==
    line \notin {"malformed", "blank"}

\* L49-51 add one for this line: json.loads returns, result.get exists (the
\* value is an object) and the value of Verified is true.  Every exception is
\* taken by the bare except of L52.
Counts(line) ==
    Loads(line) /\ line # "not_object" /\ line = "verified"

\* secrets_found.strip().split('\n'): leading and trailing empty lines go
RECURSIVE LStrip(_)
LStrip(lines) ==
    IF lines # <<>> /\ Head(lines) = "blank" THEN LStrip(Tail(lines)) ELSE lines

RECURSIVE RStrip(_)
RStrip(lines) ==
    IF lines # <<>> /\ lines[Len(lines)] = "blank"
    THEN RStrip(SubSeq(lines, 1, Len(lines) - 1)) ELSE lines

StripText(lines) ==
    RStrip(LStrip(lines))

\* The loop of L45-53 over the lines, the line at index skip excepted (0: none)
RECURSIVE CountFrom(_, _, _)
CountFrom(lines, k, skip) ==
    IF k > Len(lines) THEN 0
    ELSE (IF k # skip /\ Counts(lines[k]) THEN 1 ELSE 0) + CountFrom(lines, k + 1, skip)

VerifiedCount(secrets_found) ==
    CountFrom(StripText(secrets_found), 1, 0)

\* send_alert goes as far as the POST (L40-56)
Posts(webhook_url, secrets_found) ==
    webhook_url /\ StripText(secrets_found) # <<>> /\ VerifiedCount(secrets_found) > 0

\* What the loop of L45-53 can yield over the outputs that are not empty: the
\* count, and whether an interrupt was taken by the bare except of L52
ScanOutcomes ==
    UNION {{<<CountFrom(StripText(secrets_found), 1, skip), skip # 0>> :
                skip \in 0..Len(StripText(secrets_found))} :
           secrets_found \in Stdouts \ {<<>>}}

\* subprocess.run of the scanner, the report of its output (L584-616,
\* L347-379) and, for an output that is not empty, DiscordLogger.send_alert up
\* to the POST (L38-56).  A KeyboardInterrupt raised while a line is parsed is
\* taken by the bare except of L52 like any other exception: the line is
\* passed over and the loop goes on.  One raised elsewhere in send_alert is
\* not taken by `except Exception` (L100).
Scan ==
    /\ pc = "scan"
    /\ pkg_scanned' = TRUE
    /\ \/ \* nothing on stdout, or no webhook: send_alert does nothing
          /\ did' = Mark("scan")
          /\ Leave("normal")
          /\ UNCHANGED verified_count
       \/ /\ args.discord_webhook
          /\ \E outcome \in ScanOutcomes :
                /\ verified_count' = outcome[1]
                /\ did' = IF outcome[2] THEN [Mark("scan") EXCEPT !.swallowed = TRUE]
                          ELSE Mark("scan")
          /\ IF verified_count' = 0 THEN Leave("normal") ELSE GoOn("post")
       \/ \* subprocess.run raises (OSError)
          /\ did' = MarkRaised("scan")
          /\ Caught("scanner_error")
          /\ UNCHANGED verified_count
       \/ /\ did' = Mark("scan")
          /\ Interrupted
          /\ UNCHANGED verified_count
    /\ UNCHANGED <<env, top, tmp_dirs, loop, work_dir, filename, stdout, archive, posts,
                   client_exc, started, sleeps, skip_reason>>

\* A send_alert whose POST is outside the try of L94-101: a failure of the
\* POST goes up through the pipeline
PostFailureRaises ==
    /\ pc = "post"
    /\ posts' = posts + 1
    /\ \/ /\ Leave("normal")
          /\ UNCHANGED did
       \/ /\ pc' = "cleanup"
          /\ pending' = "Exception"
          /\ exit_path' = "alert_failure"
          /\ did' = Raised
          /\ UNCHANGED pkg_logged
    /\ UNCHANGED <<env, top, tmp_dirs, loop, work_dir, filename, stdout, archive, verified_count,
                   client_exc, started, sleeps, skip_reason, pkg_scanned>>

\* DiscordLogger.send_alert: the POST and its handlers (L94-101)
Post ==
    /\ pc = "post"
    /\ posts' = posts + 1
    /\ \/ \* status 204
          /\ Leave("normal")
          /\ UNCHANGED did
       \/ \* another status (L98), or the POST raises (L100): a warning
          /\ \E raises \in BOOLEAN :
                did' = IF raises THEN Raised ELSE did
          /\ Leave("alert_failure")
       \/ /\ Interrupted
          /\ UNCHANGED did
    /\ UNCHANGED <<env, top, tmp_dirs, loop, work_dir, filename, stdout, archive, verified_count,
                   client_exc, started, sleeps, skip_reason, pkg_scanned>>

\* A pipeline that never removes its working directory
RmtreeNever(dirs, dir) ==
    dirs

\* A cleanup written after the try block instead of in a finally block: it is
\* passed over when an exception is in flight
RmtreeSkippedOnRaise(dirs, dir) ==
    IF pending # "none" THEN dirs
    ELSE IF dir # None /\ dir \in dirs THEN dirs \ {dir} ELSE dirs

\* The directories left on disk by the finally block (L620-624, L383-387)
Rmtree(dirs, dir) ==
    IF dir # None /\ dir \in dirs THEN dirs \ {dir} ELSE dirs

\* A _scan_maven_artifacts that leaves its loop after the first artifact type
\* it called the pipeline for
CleanupBreaksAfterFirst ==
    /\ pc = "cleanup"
    /\ tmp_dirs' = Rmtree(tmp_dirs, work_dir)
    /\ work_dir' = None
    /\ pending' = "none"
    /\ filename' = "none"
    /\ verified_count' = 0
    /\ posts' = 0
    /\ exit_path' = "none"
    /\ UNCHANGED <<stdout, archive>>
    /\ IF pending # "none"
       THEN /\ ClientRaises(pending)
            /\ UNCHANGED <<vi, ai, scanned_any>>
       ELSE IF args.ecosystem = "maven"
       THEN /\ pc' = "head"
            /\ scanned_any' = TRUE
            /\ ai' = Len(artifact_types) + 1
            /\ UNCHANGED <<vi, client_exc, pkg_logged>>
       ELSE /\ pc' = "ver_loop"
            /\ vi' = vi + 1
            /\ UNCHANGED <<ai, scanned_any, client_exc, pkg_logged>>
    /\ UNCHANGED <<env, top, package_names, i, reg, versions, started, sleeps,
                   skip_reason, pkg_scanned, did>>

\* The finally block of the pipeline and the return to the caller: the loop
\* over versions goes on (L432, L482, L528), or the loop over artifact types
\* does (L283-287); an exception in flight goes up.
Cleanup ==
    /\ pc = "cleanup"
    /\ tmp_dirs' = Rmtree(tmp_dirs, work_dir)
    /\ work_dir' = None
    /\ pending' = "none"
    /\ filename' = "none"
    /\ verified_count' = 0
    /\ posts' = 0
    /\ exit_path' = "none"
    /\ UNCHANGED <<stdout, archive>>
    /\ IF pending # "none"
       THEN /\ ClientRaises(pending)
            /\ UNCHANGED <<vi, ai, scanned_any>>
       ELSE IF args.ecosystem = "maven"
       THEN /\ pc' = "head"
            /\ scanned_any' = TRUE
            /\ ai' = ai + 1
            /\ UNCHANGED <<vi, client_exc, pkg_logged>>
       ELSE /\ pc' = "ver_loop"
            /\ vi' = vi + 1
            /\ UNCHANGED <<ai, scanned_any, client_exc, pkg_logged>>
    /\ UNCHANGED <<env, top, package_names, i, reg, versions, started, sleeps,
                   skip_reason, pkg_scanned, did>>

\* A scan_from_file without the sleep of L136-137
PkgEndNoSleep ==
    /\ pc = "pkg_end"
    /\ IF args.file /\ i < Len(package_names)
       THEN pc' = "pkg_begin" /\ i' = i + 1
       ELSE pc' = "main_end" /\ i' = i
    /\ UNCHANGED <<env, tmp_dirs, package_names, reg, versions, vi, ai, scanned_any, call,
                   top, hist, pkg_logged, client_exc>>

\* scan_from_file after the client returned (L134-137), or main after it did
PkgEnd ==
    /\ pc = "pkg_end"
    /\ pc' = IF args.file /\ i < Len(package_names) THEN "sleep" ELSE "main_end"
    /\ UNCHANGED <<env, tmp_dirs, loop, call, top, hist, pkg_logged, client_exc>>

\* A loop that takes the same line again after the sleep
SleepStays ==
    /\ pc = "sleep"
    /\ sleeps' = sleeps + 1
    /\ pc' = "pkg_begin"
    /\ UNCHANGED <<env, top, tmp_dirs, loop, call, started, pkg_logged, client_exc,
                   exit_path, skip_reason, pkg_scanned, did>>

\* time.sleep(delay) and the next turn of the loop (L137, L122)
Sleep ==
    /\ pc = "sleep"
    /\ sleeps' = sleeps + 1
    /\ \/ /\ i' = i + 1
          /\ pc' = "pkg_begin"
          /\ UNCHANGED top
       \/ /\ MainExcept("KeyboardInterrupt")
          /\ UNCHANGED i
    /\ UNCHANGED <<env, tmp_dirs, package_names, reg, versions, vi, ai, scanned_any, call,
                   started, pkg_logged, client_exc, exit_path, skip_reason, pkg_scanned, did>>

\* DiscordLogger.send_alert up to the POST (L38-56), applied to the text in
\* stdout; Post is the rest of it
SendAlert ==
    /\ pc = "send_alert"
    /\ verified_count' = IF ~args.discord_webhook \/ StripText(stdout) = <<>>
                         THEN verified_count
                         ELSE VerifiedCount(stdout)
    /\ IF Posts(args.discord_webhook, stdout) THEN GoOn("post") ELSE Leave("normal")
    /\ UNCHANGED <<env, top, tmp_dirs, loop, work_dir, filename, stdout, archive, posts, client_exc,
                   started, sleeps, skip_reason, pkg_scanned, did>>

Next ==
    \/ CheckTrufflehog
    \/ Dispatch
    \/ OpenFile
    \/ PkgBegin
    \/ Meta
    \/ CratesVersions
    \/ MavenVersions
    \/ MavenLatest
    \/ VerLoop
    \/ HeadRequest
    \/ Mkdtemp
    \/ Download
    \/ Extract
    \/ Scan
    \/ Post
    \/ Cleanup
    \/ PkgEnd
    \/ Sleep
    \/ Except
    \/ MainEnd

Spec ==
    Init /\ [][Next]_vars

\* One call of DiscordLogger.send_alert on every text of at most MaxOut lines,
\* with and without a webhook
InitAlert ==
    /\ args \in {a \in Args : ~a.file /\ a.package_name = "a" /\ a.ecosystem = "pypi"
                                /\ a.version = 0 /\ ~a.all_versions}
    /\ trufflehog_installed = TRUE
    /\ file_exists = FALSE
    /\ tmp_dirs = {}
    /\ pc = "send_alert"
    /\ package_names = <<>>
    /\ i = 0
    /\ reg = NoRegistry
    /\ versions = <<>>
    /\ vi = 0
    /\ ai = 0
    /\ scanned_any = FALSE
    /\ work_dir = None
    /\ pending = "none"
    /\ filename = "none"
    /\ stdout \in Stdouts
    /\ archive = "none"
    /\ verified_count = 0
    /\ posts = 0
    /\ exit_code = -1
    /\ started = <<>>
    /\ errors = 0
    /\ pkg_logged = FALSE
    /\ sleeps = 0
    /\ client_exc = "none"
    /\ top_exc = "none"
    /\ exit_path = "none"
    /\ skip_reason = "none"
    /\ pkg_scanned = FALSE
    /\ did = NoActivity

NextAlert ==
    \/ SendAlert
    \/ Post

SpecAlert ==
    InitAlert /\ [][NextAlert]_vars

\* The pipeline from its extraction step on, for every file name the download
\* step can save and every kind of bytes in it
InitExtract ==
    /\ args \in {a \in Args : ~a.file /\ a.version = 0 /\ ~a.all_versions
                                /\ a.package_name = "g:a"}
    /\ trufflehog_installed = TRUE
    /\ file_exists = FALSE
    /\ pc = "extract"
    /\ package_names = <<args.package_name>>
    /\ i = 1
    /\ reg = [versions |-> <<1>>, latest |-> 1]
    /\ versions = <<1>>
    /\ vi = 1
    /\ ai \in IF args.ecosystem = "maven" THEN {1, 2} ELSE {0}
    /\ scanned_any = FALSE
    /\ work_dir = <<i, vi, ai>>
    /\ tmp_dirs = {work_dir}
    /\ pending = "none"
    /\ filename \in IF args.ecosystem = "maven" THEN {"jar"}
                    ELSE {SavedName(args.ecosystem = "crates", url_name, zip_content_type) :
                             url_name \in UrlNames, zip_content_type \in BOOLEAN}
    /\ archive \in Formats
    /\ stdout = <<>>
    /\ verified_count = 0
    /\ posts = 0
    /\ exit_code = -1
    /\ started = package_names
    /\ errors = 0
    /\ pkg_logged = FALSE
    /\ sleeps = 0
    /\ client_exc = "none"
    /\ top_exc = "none"
    /\ exit_path = "none"
    /\ skip_reason = "none"
    /\ pkg_scanned = FALSE
    /\ did = [NoActivity EXCEPT !.request = TRUE, !.mkdtemp = TRUE, !.download = TRUE]

NextExtract ==
    \/ ExtractArchive
    \/ Scan
    \/ Post
    \/ Cleanup

SpecExtract ==
    InitExtract /\ [][NextExtract]_vars

C2_ErrorsContained ==
    (pc = "exited" /\ args.file /\ top_exc = "none")
        => started = package_names

\* C3: when the metadata lookup answers with a non-success status or the
\* version asked for does not exist, the client call logs it, raises no
\* Exception to its caller, never reaches the scanner for that package, and a
\* batch that ends without an interrupt did not end before its last line.
C3_SkipWithLog ==
    skip_reason # "none" =>
        /\ pc # "scan" /\ pc # "post" /\ ~pkg_scanned
        /\ client_exc # "Exception"
        /\ (pc \in {"pkg_end", "sleep", "main_end"} => pkg_logged)
        /\ (pc = "exited" /\ top_exc = "none" => pkg_logged /\ i = Len(package_names))

\* C3 witness: a crates batch whose explicitly requested version does not
\* exist has finished its first package and goes on to the sleep before the
\* second.
C3_Witness ==
    /\ args.ecosystem = "crates"
    /\ skip_reason = "no_version"
    /\ pc = "sleep"
    /\ did.download

\* C4: at the end of the run the exit code is non-zero exactly when the
\* scanner is unavailable or an exception (the operator's interrupt or an
\* unexpected one) reached the top level of main.
C4_ExitCode ==
    pc = "exited" =>
        ((exit_code # 0) <=> (~trufflehog_installed \/ top_exc # "none"))

\* C4 witness: a batch run in which a step raised and an error was logged for
\* the last package ends with exit code zero.
C4_Witness ==
    /\ pc = "exited"
    /\ exit_code = 0
    /\ args.file
    /\ pkg_logged
    /\ did.raised

\* C5: with the scanner binary missing the run does nothing but end with
\* exit code 1: no request, no download, no temporary directory, no scanner
\* invocation, no package started.
C5_AbortBeforeScanning ==
    ~trufflehog_installed =>
        /\ pc \in {"check_trufflehog", "exited"}
        /\ did = NoActivity
        /\ tmp_dirs = {}
        /\ started = <<>>
        /\ (pc = "exited" => exit_code = 1)

\* C5 witness: a run without the scanner binary has ended.
C5_Witness ==
    ~trufflehog_installed /\ pc = "exited" /\ exit_code = 1 /\ errors = 1

\* The lines of a text that are JSON objects with "Verified": true
TrueVerified(text) ==
    Cardinality({k \in DOMAIN text : text[k] = "verified"})

C7_AlertFailureOnlyLogged ==
    [][(pc = "cleanup" /\ exit_path = "alert_failure") =>
            /\ pending = "none"
            /\ work_dir \in tmp_dirs
            /\ tmp_dirs' = {}
            /\ client_exc' = "none"
            /\ pc' \in {"ver_loop", "head"}]_vars

\* C7 witness: the POST raised and the pipeline is at its finally block with
\* the working directory still on disk.
C7_Witness ==
    /\ pc = "cleanup"
    /\ exit_path = "alert_failure"
    /\ did.raised
    /\ posts = 1
    /\ work_dir \in tmp_dirs

\* C8: names are handed to the client one by one in the order of the file,
\* the index into the resolved versions only moves forward by one over an
\* unchanged list, the index into the artifact types only moves forward by
\* one through sources JAR, main JAR, POM, and no index moves and no
\* directory is made while a temporary directory of the previous item is
\* left.
C8_TotalOrder ==
    [][/\ artifact_types = <<"sources.jar", "jar", "pom">>
       /\ (started' # started =>
                /\ started' = Append(started, package_names[i])
                /\ Len(started') = i)
       /\ (i' # i => i' = i + 1)
       /\ (vi' # vi /\ pc # "pkg_begin" => vi' = vi + 1)
       /\ (vi' # vi /\ vi >= 1 /\ pc # "pkg_begin" => versions' = versions)
       /\ (ai' # ai /\ pc # "pkg_begin" => (ai' = ai + 1 \/ (pc = "ver_loop" /\ ai' = 1)))
       /\ (work_dir' # work_dir /\ work_dir' # None =>
                tmp_dirs = {} /\ work_dir' = <<i, vi, ai>>)
       /\ (i' # i \/ vi' # vi \/ ai' # ai \/ started' # started => tmp_dirs' = {})]_vars

\* C8 witness: the POM of the second version of the second Maven package is
\* being downloaded.
C8_Witness ==
    /\ args.ecosystem = "maven"
    /\ Len(started) = 2
    /\ pc = "download"
    /\ vi = 2
    /\ ai = 3

\* C9: a batch run in which every network, extraction and scanner step
\* returned and nobody interrupted ends having handed each name of the file
\* to the client once.
C9_EachNameOnce ==
    (pc = "exited" /\ args.file /\ ~did.raised /\ ~did.swallowed /\ top_exc = "none")
        => started = package_names

\* C10: with the batch file missing scan_from_file logs one error and
\* returns; main ends with exit code 0; no request, no download, no
\* directory, no scanner invocation, no package and no sleep happen.
C10_MissingFile ==
    [][(args.file /\ ~file_exists) =>
            /\ (pc = "open_file" =>
                    errors' = errors + 1 /\ top_exc' = "none" /\ pc' = "main_end")
            /\ (pc = "main_end" => errors' = 1 /\ exit_code' = 0 /\ pc' = "exited")
            /\ did' = NoActivity
            /\ started' = <<>>
            /\ sleeps' = 0
            /\ tmp_dirs' = {}]_vars

\* C10 witness: a batch run whose file is missing has ended.
C10_Witness ==
    /\ args.file
    /\ ~file_exists
    /\ trufflehog_installed
    /\ pc = "exited"
    /\ exit_code = 0
    /\ errors = 1

\* C11: within a Maven version every artifact type gets its HEAD probe in
\* turn; a probe is followed either by the pipeline call for that same type
\* or by the next type with nothing downloaded and no directory made; when
\* the pipeline call returns, however it went, the next type is probed; the
\* loop ends only after the POM.
C11_EveryArtifactType ==
    [][/\ (pc = "head" /\ ai <= Len(artifact_types) =>
              \/ pc' = "mkdtemp" /\ ai' = ai /\ vi' = vi
              \/ /\ pc' = "head" /\ ai' = ai + 1 /\ vi' = vi
                 /\ did'.download = did.download
                 /\ did'.mkdtemp = did.mkdtemp
                 /\ tmp_dirs' = {}
              \/ pc' = "except" /\ client_exc' = "KeyboardInterrupt")
       /\ (pc = "cleanup" /\ args.ecosystem = "maven" /\ pending = "none" =>
              pc' = "head" /\ ai' = ai + 1 /\ vi' = vi)
       /\ (pc = "head" /\ pc' = "ver_loop" => ai = Len(artifact_types) + 1)]_vars

\* C11 witness: the POM of a Maven version is being scanned after an earlier
\* artifact type of the same package went through the pipeline with a logged
\* failure.
C11_Witness ==
    /\ args.ecosystem = "maven"
    /\ pc = "scan"
    /\ ai = 3
    /\ vi = 1
    /\ Len(started) = 1
    /\ scanned_any
    /\ pkg_logged

\* The kind of bytes a well-formed archive with this file name holds
WellFormedAs(name) ==
    IF name = "tar" THEN "tar"
    ELSE IF name \in {"tar.gz", "tgz", "crate"} THEN "targz"
    ELSE IF name \in {"zip", "jar"} THEN "zip"
    ELSE "none"

\* C12: a well-formed archive whose file name has one of the extensions tar,
\* tar.gz, tgz, zip, crate, jar is extracted and the scanner step follows.
C12_SupportedExtracted ==
    [][(pc = "extract" /\ WellFormedAs(filename) # "none"
            /\ archive = WellFormedAs(filename))
          => pc' = "scan"]_vars

\* C13: without --version and without --all-versions the resolved list is
\* the one version the registry declares to be the latest, whatever the keys
\* of its version mapping are, and the pipeline runs for that version only.
C13_LatestOnly ==
    (args.version = 0 /\ ~args.all_versions
        /\ pc \in {"ver_loop", "head", "mkdtemp", "download", "extract", "scan", "post",
                    "cleanup"})
        => /\ versions = <<reg.latest>>
           /\ (pc # "ver_loop" => vi = 1)

\* C13 witness: the registry lists two versions and declares the first of
\* them the latest; the scanner runs on that one.
C13_Witness ==
    /\ args.version = 0
    /\ ~args.all_versions
    /\ reg.versions = <<1, 2>>
    /\ reg.latest = 1
    /\ pc = "scan"
    /\ versions = <<1>>
    /\ vi = 1

\* C14: a downloaded file whose name has none of the handled extensions makes
\* _download_and_scan return early: no scanner invocation, no POST, no
\* exception in flight or raised to the client, and the finally block removes
\* the working directory before the loop over versions goes on.
C14_UnsupportedSkipped ==
    [][/\ (pc = "extract" /\ args.ecosystem # "maven"
              /\ filename \notin {"tar", "tar.gz", "tgz", "zip", "crate"} =>
                 /\ pc' = "cleanup"
                 /\ exit_path' = "unsupported"
                 /\ pending' = "none"
                 /\ work_dir' \in tmp_dirs'
                 /\ ~pkg_scanned' /\ ~did'.scan /\ ~did'.raised
                 /\ posts' = 0)
       /\ (pc = "cleanup" /\ exit_path = "unsupported" =>
                 /\ tmp_dirs' = {}
                 /\ pc' = "ver_loop"
                 /\ client_exc' = "none"
                 /\ ~pkg_scanned' /\ ~did'.scan
                 /\ posts' = 0)]_vars

\* C14 witness: the pipeline has returned to the loop over versions without
\* a scan and without a logged error: the file had an extension that is not
\* handled, and the directory is gone.
C14_Witness ==
    /\ pc = "ver_loop"
    /\ vi = 2
    /\ args.ecosystem = "pypi"
    /\ did.download
    /\ ~pkg_scanned
    /\ ~pkg_logged
    /\ tmp_dirs = {}
    /\ archive = "zip"

\* An operator interrupt has arrived after the scanner-presence check: in a
\* step of the pipeline, in a request of a client, in the sleep, or while
\* send_alert parsed a line of the scanner output
InterruptArrived ==
    \/ did.swallowed
    \/ pending = "KeyboardInterrupt"
    \/ client_exc = "KeyboardInterrupt"
    \/ (top_exc = "KeyboardInterrupt" /\ started # <<>>)

\* C15: once an operator interrupt has arrived, nothing more is processed:
\* the interrupt is in flight through the finally block of the pipeline, or
\* on its way out of the client, or the run has ended at the top level with a
\* non-zero exit code and no working directory left.
C15_InterruptReachesTop ==
    InterruptArrived =>
        \/ pc = "cleanup" /\ pending = "KeyboardInterrupt"
        \/ pc = "except" /\ client_exc = "KeyboardInterrupt" /\ tmp_dirs = {}
        \/ /\ pc = "exited"
           /\ top_exc = "KeyboardInterrupt"
           /\ exit_code # 0
           /\ tmp_dirs = {}

C17_SleepsBetween ==
    /\ (pc = "sleep" => args.file /\ i < Len(package_names) /\ sleeps = i - 1)
    /\ (~args.file => sleeps = 0)
    /\ (pc = "exited" /\ args.file /\ top_exc = "none" /\ started = package_names =>
            sleeps = IF package_names = <<>> THEN 0 ELSE Len(package_names) - 1)

\* C17 witness: a batch over two names has ended after one sleep, the first
\* package having been skipped on a logged registry answer.
C17_Witness ==
    /\ pc = "exited"
    /\ args.file
    /\ top_exc = "none"
    /\ Len(package_names) = 2
    /\ started = package_names
    /\ sleeps = 1
    /\ ~did.download
    /\ errors = 0
====
